---- MODULE Spec2Model ----
(***************************************************************************)
(* Model of the staged move picker (movepick.cpp): the three constructors, *)
(* select<Next/Best>, partial_insertion_sort and next_move.                *)
(*                                                                         *)
(* A move is a small integer; NoMove is Move::none().  The position is a   *)
(* record of the answers the Position query surface gives for each move.   *)
(* Pointers into the moves buffer (cur, endMoves, endBadCaptures) are      *)
(* offsets from `moves`; curBuf names the array cur / endMoves point into. *)
(***************************************************************************)
EXTENDS Integers, Sequences, FiniteSets, TLC

\* ------------------------------------------------------------------ bounds
\* moves 1..MaxCaptures are captures, the next MaxQuiets moves are quiet
MaxCaptures == 2
MaxQuiets == 2
\* longest array handed to partial_insertion_sort in SortSpec
MaxSortLen == 4

NoMove == 0
CaptureIds == 1..MaxCaptures
QuietIds == (MaxCaptures + 1)..(MaxCaptures + MaxQuiets)
AllMoves == CaptureIds \cup QuietIds

\* ------------------------------------------------------------------ stages
MAIN_TT == 0
CAPTURE_INIT == 1
GOOD_CAPTURE == 2
REFUTATION == 3
QUIET_INIT == 4
QUIET == 5
BAD_CAPTURE == 6
EVASION_TT == 7
EVASION_INIT == 8
EVASION == 9
PROBCUT_TT == 10
PROBCUT_INIT == 11
PROBCUT == 12
QSEARCH_TT == 13
QCAPTURE_INIT == 14
QCAPTURE == 15
QCHECK_INIT == 16
QCHECK == 17

\* depth constants of the quiescence search
DEPTH_QS_CHECKS == 0
DEPTH_QS_RECAPTURES == -5

\* std::numeric_limits<int>::min()
INT_MIN == -2147483647 - 1
\* capacity of the moves buffer: ExtMove moves[MAX_MOVES]
MAX_MOVES == 256

\* ---------------------------------------------------------------- helpers
\* C++ integer division truncates toward zero (b > 0)
CDiv(a, b) == IF a >= 0 THEN a \div b ELSE -((-a) \div b)

Range(seq) == {seq[i] : i \in 1..Len(seq)}

\* the members of a set of integers in ascending order
RECURSIVE Ascending(_)
Ascending(S) ==
  IF S = {} THEN <<>>
  ELSE LET x == CHOOSE y \in S : \A z \in S : y <= z
       IN <<x>> \o Ascending(S \ {x})

ExtMove(m, v) == [move |-> m, value |-> v]

\* ------------------------------------------------------------------ state
VARIABLES
  ctor,            \* which constructor built the picker: "main", "qsearch", "probcut"
  pos,             \* the position (answers of the Position query surface)
  ttMove,
  refutations,     \* <<killers[0], killers[1], countermove>>
  depth,
  threshold,
  recaptureSquare,
  stage,
  moves,           \* the ExtMove buffer, as far as it has been written
  curBuf,          \* "unset", "moves" or "refutations": where cur / endMoves point
  cur,
  endMoves,
  endBadCaptures,
  \* observers of the calls made so far
  ret,             \* value returned by the last next_move call (-1: no call yet)
  emitted,         \* the non-none returns so far: <<[move, stage]>>
  done,            \* some call has returned none
  again,           \* next_move has been called after it had returned none
  failed,          \* captures that failed the SEE test of GOOD_CAPTURE, in scan order
  genLog,          \* generator invocations so far, in order
  refSlots,        \* size of the refutation range prepared after GOOD_CAPTURE (-1: not yet)
  \* partial_insertion_sort applied to a free-standing array (SortSpec)
  sortIn, sortLimit, sortOut, sortDone,
  \* the SAN/LAN codec applied to one legal move of one position (SanSpec)
  sanPos,          \* the position
  sanMove,         \* the legal move m
  sanText,         \* to_san(m, pos) (<<>>: not called yet)
  sanParsed,       \* algebraic_to_move(sanText, pos) (-1: not called yet)
  sanOk,           \* <<is_ok(sanText)>> (<<>>: not called yet)
  lanValidated     \* validate_move(pos, UCI::move(m)) (-1: not called yet)

pickerVars == <<ctor, pos, ttMove, refutations, depth, threshold, recaptureSquare,
                stage, moves, curBuf, cur, endMoves, endBadCaptures,
                ret, emitted, done, again, failed, genLog, refSlots>>
sortVars == <<sortIn, sortLimit, sortOut, sortDone>>
sanVars == <<sanPos, sanMove, sanText, sanParsed, sanOk, lanValidated>>
vars == <<pickerVars, sortVars, sanVars>>

\* --------------------------------------------------- the position surface
\* inputs of the scorers: (midgame value of the captured piece, capture history)
CaptureInputs == {<<126, -1200>>, <<2538, 0>>}
\* static exchange evaluation of a capture
SeeValues == {-100, 50}
\* butterfly history of a quiet move (continuation histories are zero): the
\* quiet moves alternate between a poor and a good history
HistOf(m) == IF (m - MaxCaptures) % 2 = 1 THEN -2500 ELSE 100
Squares == {1, 2}
\* type_of(moved_piece(m)): every capture is made by a pawn
PAWN == 1

\* what the surface holds for a move that is not pseudo-legal (never scored)
Defaults == [capIn |-> <<126, -1200>>, see |-> -100, toSq |-> 1]

\* Position::capture / Position::capture_stage
capture(m) == m \in CaptureIds
capture_stage(m) == capture(m)
pseudo_legal(m) == m \in pos.legal
\* Position::see_ge: the exchange on m is worth at least v
see_ge(m, v) == pos.see[m] >= v
to_sq(m) == pos.toSq[m]

\* generate<CAPTURES>, generate<QUIETS>, generate<EVASIONS>, generate<QUIET_CHECKS>:
\* the pseudo-legal moves of the kind, in the generator's fixed order
generate(Type) ==
  CASE Type = "CAPTURES" -> Ascending(pos.legal \cap CaptureIds)
    [] Type = "QUIETS" -> Ascending(pos.legal \cap QuietIds)
    [] Type = "EVASIONS" -> Ascending(pos.legal)
    [] Type = "QUIET_CHECKS" -> Ascending(pos.checks)

\* a position: legal moves L, and for each legal move the scorer and SEE inputs
\* (moves that are not pseudo-legal carry the defaults: they are never scored)
Position(chk, L, ci, se, sq, ck) ==
  [checkers |-> chk, legal |-> L,
   capIn |-> [m \in CaptureIds |-> IF m \in DOMAIN ci THEN ci[m] ELSE Defaults.capIn],
   see |-> [m \in CaptureIds |-> IF m \in DOMAIN se THEN se[m] ELSE Defaults.see],
   hist |-> [m \in QuietIds |-> HistOf(m)],
   toSq |-> [m \in CaptureIds |-> IF m \in DOMAIN sq THEN sq[m] ELSE Defaults.toSq],
   checks |-> ck]

Empty == [m \in {} |-> 0]

\* ------------------------------------------------- partial_insertion_sort
\* mutant: the comparison of the insertion loop reversed
RECURSIVE InsertLoopAscending(_, _, _)
InsertLoopAscending(a, q, tmp) ==
  IF q # 1 /\ a[q - 1].value > tmp.value
  THEN InsertLoopAscending([a EXCEPT ![q] = a[q - 1]], q - 1, tmp)
  ELSE [a EXCEPT ![q] = tmp]

\* for (q = sortedEnd; q != begin && *(q - 1) < tmp; --q) *q = *(q - 1);  *q = tmp;
RECURSIVE InsertLoop(_, _, _)
InsertLoop(a, q, tmp) ==
  IF q # 1 /\ a[q - 1].value < tmp.value
  THEN InsertLoop([a EXCEPT ![q] = a[q - 1]], q - 1, tmp)
  ELSE [a EXCEPT ![q] = tmp]

\* mutant: an entry equal to the limit is left unsorted
QualifiesStrict(e, limit) == e.value > limit

\* p->value >= limit
Qualifies(e, limit) == e.value >= limit

\* for (sortedEnd = begin, p = begin + 1; p < end; ++p) if (p->value >= limit) {...}
RECURSIVE SortLoop(_, _, _, _)
SortLoop(a, sortedEnd, p, limit) ==
  IF p > Len(a) THEN a
  ELSE IF Qualifies(a[p], limit)
       THEN LET tmp == a[p]
                se == sortedEnd + 1
                a1 == [a EXCEPT ![p] = a[se]]
            IN SortLoop(InsertLoop(a1, se, tmp), se, p + 1, limit)
       ELSE SortLoop(a, sortedEnd, p + 1, limit)

partial_insertion_sort(a, limit) == SortLoop(a, 1, 2, limit)

\* ------------------------------------------------------------------ score
\* score<CAPTURES>: (7 * PieceValue[MG][pto] + captureHistory) / 16
ScoreCapture(m) == CDiv(7 * pos.capIn[m][1] + pos.capIn[m][2], 16)

\* score<QUIETS>: 2 * mainHistory, the continuation histories being zero and no
\* piece threatened
ScoreQuiet(m) == pos.hist[m] * 2

\* score<EVASIONS>
ScoreEvasion(m) ==
  IF capture_stage(m) THEN pos.capIn[m][1] - PAWN + 268435456
  ELSE pos.hist[m]

ScoreOf(Type, m) ==
  CASE Type = "CAPTURES" -> ScoreCapture(m)
    [] Type = "QUIETS" -> ScoreQuiet(m)
    [] Type = "EVASIONS" -> ScoreEvasion(m)

\* ----------------------------------------------------- the picker's record
\* The fields next_move changes, gathered in a record s so that the stages can
\* be chained as the switch falls through them.

\* *cur
AtCur(s) ==
  IF s.curBuf = "refutations" THEN ExtMove(refutations[s.cur + 1], 0)
  ELSE s.moves[s.cur + 1]

\* the buffer with list written from offset off on
WriteAt(buf, off, list) ==
  LET n == IF Len(buf) > off + Len(list) THEN Len(buf) ELSE off + Len(list)
  IN [i \in 1..n |-> IF i > off /\ i <= off + Len(list) THEN list[i - off] ELSE buf[i]]

\* endMoves = generate<Type>(pos, cur), the value of the new entries not yet set
Generate(s, Type) ==
  LET list == generate(Type)
      ext == [i \in 1..Len(list) |-> ExtMove(list[i], 0)]
  IN [s EXCEPT !.moves = WriteAt(s.moves, s.cur, ext),
               !.endMoves = s.cur + Len(list),
               !.curBuf = "moves",
               !.genLog = Append(@, Type)]

\* score<Type>(): for (auto& m : *this), that is [cur, endMoves)
Score(s, Type) ==
  [s EXCEPT !.moves = [i \in 1..Len(s.moves) |->
      IF i > s.cur /\ i <= s.endMoves
      THEN ExtMove(s.moves[i].move, ScoreOf(Type, s.moves[i].move))
      ELSE s.moves[i]]]

\* partial_insertion_sort(cur, endMoves, limit)
SortRange(s, limit) ==
  LET sorted == partial_insertion_sort(SubSeq(s.moves, s.cur + 1, s.endMoves), limit)
  IN [s EXCEPT !.moves = WriteAt(s.moves, s.cur, sorted)]

\* ----------------------------------------------------------------- select
\* Value(-69 * cur->value / 1024)
SeeThreshold(v) == CDiv(-69 * v, 1024)

\* mutant: a losing capture is skipped without being moved to endBadCaptures
GoodCaptureFilterDropsLoser(s) ==
  [ok |-> see_ge(AtCur(s).move, SeeThreshold(AtCur(s).value)), s |-> s]

\* mutant: a losing capture is written to the slot after *cur instead of
\* *endBadCaptures
GoodCaptureFilterWritesAhead(s) ==
  LET e == AtCur(s) IN
  IF see_ge(e.move, SeeThreshold(e.value))
  THEN [ok |-> TRUE, s |-> s]
  ELSE [ok |-> FALSE,
        s |-> [s EXCEPT !.moves = WriteAt(s.moves, s.cur + 1, <<e>>),
                        !.endBadCaptures = @ + 1,
                        !.failed = Append(@, e.move)]]

\* the filters: each yields whether *cur passes and the record after its side effects
GoodCaptureFilter(s) ==
  LET e == AtCur(s) IN
  IF see_ge(e.move, SeeThreshold(e.value))
  THEN [ok |-> TRUE, s |-> s]
  ELSE [ok |-> FALSE,
        s |-> [s EXCEPT !.moves = WriteAt(s.moves, s.endBadCaptures, <<e>>),
                        !.endBadCaptures = @ + 1,
                        !.failed = Append(@, e.move)]]

\* mutant: the capture test of the refutation filter left out
RefutationFilterNoCaptureTest(m) == m # NoMove /\ pseudo_legal(m)

RefutationFilter(m) == m # NoMove /\ ~capture(m) /\ pseudo_legal(m)

QuietFilter(m) == m # refutations[1] /\ m # refutations[2] /\ m # refutations[3]

\* mutant: the exchange is tested against zero instead of the threshold
ProbcutFilterZeroThreshold(m) == see_ge(m, 0)

ProbcutFilter(m) == see_ge(m, threshold)

\* mutant: the recapture restriction applies from DEPTH_QS_RECAPTURES - 1 on
QCaptureFilterOffByOne(m) == depth >= DEPTH_QS_RECAPTURES \/ to_sq(m) = recaptureSquare

QCaptureFilter(m) == depth > DEPTH_QS_RECAPTURES \/ to_sq(m) = recaptureSquare

Filter(s, F) ==
  CASE F = "GOOD_CAPTURE" -> GoodCaptureFilter(s)
    [] F = "REFUTATION" -> [ok |-> RefutationFilter(AtCur(s).move), s |-> s]
    [] F = "QUIET" -> [ok |-> QuietFilter(AtCur(s).move), s |-> s]
    [] F = "PROBCUT" -> [ok |-> ProbcutFilter(AtCur(s).move), s |-> s]
    [] F = "QCAPTURE" -> [ok |-> QCaptureFilter(AtCur(s).move), s |-> s]
    [] F = "TRUE" -> [ok |-> TRUE, s |-> s]

\* std::max_element(cur, endMoves): offset of the first entry of greatest value
MaxElement(s) ==
  CHOOSE i \in s.cur..(s.endMoves - 1) :
    /\ \A j \in s.cur..(s.endMoves - 1) : s.moves[j + 1].value <= s.moves[i + 1].value
    /\ \A j \in s.cur..(i - 1) : s.moves[j + 1].value < s.moves[i + 1].value

\* std::swap(*cur, *std::max_element(cur, endMoves))
SwapBest(s) ==
  LET i == MaxElement(s) IN
  [s EXCEPT !.moves = [@ EXCEPT ![s.cur + 1] = s.moves[i + 1], ![i + 1] = s.moves[s.cur + 1]]]

\* *cur != ttMove
NotTT(m) == m # ttMove

\* select<T>(filter): [s |-> the record afterwards, ret |-> the move returned]
RECURSIVE select(_, _, _)
select(s, T, F) ==
  IF s.cur < s.endMoves
  THEN LET s1 == IF T = "Best" THEN SwapBest(s) ELSE s
           m == AtCur(s1).move
       IN IF NotTT(m)
          THEN LET f == Filter(s1, F)
               IN IF f.ok
                  THEN [s |-> [f.s EXCEPT !.cur = @ + 1], ret |-> m]
                  ELSE select([f.s EXCEPT !.cur = @ + 1], T, F)
          ELSE select([s1 EXCEPT !.cur = @ + 1], T, F)
  ELSE [s |-> s, ret |-> NoMove]

\* mutant: when the range is exhausted and the quiet moves were never generated,
\* they are generated after all and returned from
BadCaptureThenQuiets(s) ==
  LET r == select(s, "Next", "TRUE") IN
  IF r.ret # NoMove \/ s.stage # BAD_CAPTURE \/ "QUIETS" \in Range(s.genLog) THEN r
  ELSE select(Generate(r.s, "QUIETS"), "Next", "QUIET")

\* -------------------------------------------------------------- next_move
\* case BAD_CAPTURE / QCHECK: return select<Next>([]() { return true; });
BadCapture(s) == select(s, "Next", "TRUE")

\* mutant: the evasions are picked in buffer order
EvasionSelectsNext(s) == select(s, "Next", "TRUE")

\* case EVASION: return select<Best>([]() { return true; });
Evasion(s) == select(s, "Best", "TRUE")

\* case PROBCUT
Probcut(s) == select(s, "Next", "PROBCUT")

\* case QCHECK_INIT, falling through to QCHECK
QCheckInit(s) ==
  LET s1 == Generate([s EXCEPT !.cur = 0], "QUIET_CHECKS")
  IN select([s1 EXCEPT !.stage = QCHECK], "Next", "TRUE")

\* mutant: the stage is advanced before the depth test
QCaptureAdvancesFirst(s) ==
  LET r == select(s, "Next", "QCAPTURE") IN
  IF r.ret # NoMove THEN r
  ELSE IF depth # DEPTH_QS_CHECKS THEN [s |-> [r.s EXCEPT !.stage = QCHECK_INIT], ret |-> NoMove]
  ELSE QCheckInit([r.s EXCEPT !.stage = QCHECK_INIT])

\* mutant: the depth test before the quiet checks left out
QCaptureAlwaysChecks(s) ==
  LET r == select(s, "Next", "QCAPTURE") IN
  IF r.ret # NoMove THEN r
  ELSE QCheckInit([r.s EXCEPT !.stage = QCHECK_INIT])

\* case QCAPTURE
QCapture(s) ==
  LET r == select(s, "Next", "QCAPTURE") IN
  IF r.ret # NoMove THEN r
  ELSE IF depth # DEPTH_QS_CHECKS THEN [s |-> r.s, ret |-> NoMove]
  ELSE QCheckInit([r.s EXCEPT !.stage = QCHECK_INIT])

\* case EVASION_INIT, falling through to EVASION
EvasionInit(s) ==
  LET s1 == Score(Generate([s EXCEPT !.cur = 0], "EVASIONS"), "EVASIONS")
  IN Evasion([s1 EXCEPT !.stage = EVASION])

\* mutant: cur is not moved back to the start of the buffer for the bad captures
QuietKeepsCur(s, skipQuiets) ==
  LET r == IF ~skipQuiets THEN select(s, "Next", "QUIET") ELSE [s |-> s, ret |-> NoMove] IN
  IF r.ret # NoMove THEN r
  ELSE BadCapture([r.s EXCEPT !.curBuf = "moves",
                              !.endMoves = r.s.endBadCaptures, !.stage = BAD_CAPTURE])

\* case QUIET, falling through to BAD_CAPTURE
Quiet(s, skipQuiets) ==
  LET r == IF ~skipQuiets THEN select(s, "Next", "QUIET") ELSE [s |-> s, ret |-> NoMove] IN
  IF r.ret # NoMove THEN r
  ELSE BadCapture([r.s EXCEPT !.curBuf = "moves", !.cur = 0,
                              !.endMoves = r.s.endBadCaptures, !.stage = BAD_CAPTURE])

\* partial_insertion_sort(cur, endMoves, -3000 * depth)
QuietSortLimit == -3000 * depth

\* mutant: the quiet moves are generated from the start of the buffer
QuietInitAtBufferStart(s, skipQuiets) ==
  LET s1 == IF ~skipQuiets
            THEN SortRange(Score(Generate([s EXCEPT !.cur = 0], "QUIETS"),
                                 "QUIETS"), QuietSortLimit)
            ELSE s
  IN Quiet([s1 EXCEPT !.stage = QUIET], skipQuiets)

\* case QUIET_INIT, falling through to QUIET
QuietInit(s, skipQuiets) ==
  LET s1 == IF ~skipQuiets
            THEN SortRange(Score(Generate([s EXCEPT !.cur = s.endBadCaptures], "QUIETS"),
                                 "QUIETS"), QuietSortLimit)
            ELSE s
  IN Quiet([s1 EXCEPT !.stage = QUIET], skipQuiets)

\* case REFUTATION, falling through to QUIET_INIT
Refutation(s, skipQuiets) ==
  LET r == select(s, "Next", "REFUTATION") IN
  IF r.ret # NoMove THEN r
  ELSE QuietInit([r.s EXCEPT !.stage = QUIET_INIT], skipQuiets)

\* mutant: the countermove slot is never dropped
RefutationEndNoDedup == Len(refutations)

\* endMoves = std::end(refutations); if the countermove is the same as a killer, --endMoves
RefutationEnd ==
  IF refutations[1] = refutations[3] \/ refutations[2] = refutations[3] THEN 2 ELSE 3

\* case GOOD_CAPTURE, falling through to REFUTATION
GoodCapture(s, skipQuiets) ==
  LET r == select(s, "Next", "GOOD_CAPTURE") IN
  IF r.ret # NoMove THEN r
  ELSE Refutation([r.s EXCEPT !.curBuf = "refutations", !.cur = 0,
                              !.endMoves = RefutationEnd, !.refSlots = RefutationEnd,
                              !.stage = REFUTATION], skipQuiets)

\* mutant: endBadCaptures starts at the end of the generated captures
CaptureInitBadAtEnd(s, skipQuiets) ==
  LET s1 == SortRange(Score(Generate([s EXCEPT !.cur = 0, !.endBadCaptures = 0], "CAPTURES"),
                            "CAPTURES"), INT_MIN)
      s2 == [s1 EXCEPT !.stage = @ + 1, !.endBadCaptures = s1.endMoves]
  IN CASE s2.stage = GOOD_CAPTURE -> GoodCapture(s2, skipQuiets)
       [] s2.stage = PROBCUT -> Probcut(s2)
       [] s2.stage = QCAPTURE -> QCapture(s2)

\* case CAPTURE_INIT / PROBCUT_INIT / QCAPTURE_INIT, then goto top
CaptureInit(s, skipQuiets) ==
  LET s1 == SortRange(Score(Generate([s EXCEPT !.cur = 0, !.endBadCaptures = 0], "CAPTURES"),
                            "CAPTURES"), INT_MIN)
      s2 == [s1 EXCEPT !.stage = @ + 1]
  IN CASE s2.stage = GOOD_CAPTURE -> GoodCapture(s2, skipQuiets)
       [] s2.stage = PROBCUT -> Probcut(s2)
       [] s2.stage = QCAPTURE -> QCapture(s2)

\* mutant: the TT stage returns the move without advancing the stage
TTStageStays(s) == [s |-> s, ret |-> ttMove]

\* case MAIN_TT / EVASION_TT / QSEARCH_TT / PROBCUT_TT: ++stage; return ttMove;
TTStage(s) == [s |-> [s EXCEPT !.stage = @ + 1], ret |-> ttMove]

\* mutant: the skipQuiets argument is ignored
next_move_ignoring_skipQuiets(s, skipQuiets) ==
  CASE s.stage \in {MAIN_TT, EVASION_TT, QSEARCH_TT, PROBCUT_TT} -> TTStage(s)
    [] s.stage \in {CAPTURE_INIT, PROBCUT_INIT, QCAPTURE_INIT} -> CaptureInit(s, FALSE)
    [] s.stage = GOOD_CAPTURE -> GoodCapture(s, FALSE)
    [] s.stage = REFUTATION -> Refutation(s, FALSE)
    [] s.stage = QUIET_INIT -> QuietInit(s, FALSE)
    [] s.stage = QUIET -> Quiet(s, FALSE)
    [] s.stage = BAD_CAPTURE -> BadCapture(s)
    [] s.stage = EVASION_INIT -> EvasionInit(s)
    [] s.stage = EVASION -> Evasion(s)
    [] s.stage = PROBCUT -> Probcut(s)
    [] s.stage = QCAPTURE -> QCapture(s)
    [] s.stage = QCHECK_INIT -> QCheckInit(s)
    [] s.stage = QCHECK -> BadCapture(s)

\* Move MovePicker::next_move(bool skipQuiets): switch (stage)
next_move(s, skipQuiets) ==
  CASE s.stage \in {MAIN_TT, EVASION_TT, QSEARCH_TT, PROBCUT_TT} -> TTStage(s)
    [] s.stage \in {CAPTURE_INIT, PROBCUT_INIT, QCAPTURE_INIT} -> CaptureInit(s, skipQuiets)
    [] s.stage = GOOD_CAPTURE -> GoodCapture(s, skipQuiets)
    [] s.stage = REFUTATION -> Refutation(s, skipQuiets)
    [] s.stage = QUIET_INIT -> QuietInit(s, skipQuiets)
    [] s.stage = QUIET -> Quiet(s, skipQuiets)
    [] s.stage = BAD_CAPTURE -> BadCapture(s)
    [] s.stage = EVASION_INIT -> EvasionInit(s)
    [] s.stage = EVASION -> Evasion(s)
    [] s.stage = PROBCUT -> Probcut(s)
    [] s.stage = QCAPTURE -> QCapture(s)
    [] s.stage = QCHECK_INIT -> QCheckInit(s)
    [] s.stage = QCHECK -> BadCapture(s)

\* ----------------------------------------------------------- constructors
\* mutant: the negation of the entry test left out
MainStageInverted(p, ttm) ==
  (IF p.checkers THEN EVASION_TT ELSE MAIN_TT)
    + (IF ttm # NoMove /\ ttm \in p.legal THEN 1 ELSE 0)

\* stage = (pos.checkers() ? EVASION_TT : MAIN_TT) + !(ttm && pos.pseudo_legal(ttm));
MainStage(p, ttm) ==
  (IF p.checkers THEN EVASION_TT ELSE MAIN_TT)
    + (IF ttm # NoMove /\ ttm \in p.legal THEN 0 ELSE 1)

\* mutant: the quiescence constructor does not look at pos.checkers()
QSearchStageIgnoresCheck(p, ttm) ==
  QSEARCH_TT + (IF ttm # NoMove /\ ttm \in p.legal THEN 0 ELSE 1)

\* stage = (pos.checkers() ? EVASION_TT : QSEARCH_TT) + !(ttm && pos.pseudo_legal(ttm));
QSearchStage(p, ttm) ==
  (IF p.checkers THEN EVASION_TT ELSE QSEARCH_TT)
    + (IF ttm # NoMove /\ ttm \in p.legal THEN 0 ELSE 1)

\* mutant: the SEE test of the probcut entry rule left out
ProbcutStageNoSee(p, ttm, th) ==
  PROBCUT_TT + (IF ttm # NoMove /\ capture_stage(ttm) /\ ttm \in p.legal THEN 0 ELSE 1)

\* stage = PROBCUT_TT + !(ttm && pos.capture_stage(ttm) && pos.pseudo_legal(ttm)
\*                            && pos.see_ge(ttm, threshold));
ProbcutStage(p, ttm, th) ==
  PROBCUT_TT + (IF ttm # NoMove /\ capture_stage(ttm) /\ ttm \in p.legal /\ p.see[ttm] >= th
                THEN 0 ELSE 1)

\* ------------------------------------------------------------------ inputs
MainDepths == {1}
QsDepths == {DEPTH_QS_CHECKS, -1, DEPTH_QS_RECAPTURES}
Thresholds == {0, 100}
\* the moves tried as ttMove: none, the first capture, the first quiet move
TTMoves == {NoMove, 1, MaxCaptures + 1}
\* the refutations tried: each slot none, a capture or a quiet move, with every
\* pattern of equal slots
Killer0Moves == {NoMove, 1, MaxCaptures + 1}
Killer1Moves == {NoMove, MaxCaptures + 1, MaxCaptures + 2}
CounterMoves == {NoMove, 1, MaxCaptures + 1, MaxCaptures + 2}
RefutationTriples ==
  {<<k0, k1, cm>> : k0 \in Killer0Moves, k1 \in Killer1Moves, cm \in CounterMoves}

\* the positions handed to the constructors, with the inputs each flavor reads
CapsOf(L) == L \cap CaptureIds
QuietsOf(L) == L \cap QuietIds

MainPositions ==
  UNION {{Position(FALSE, L, ci, se, Empty, {}) :
            ci \in [CapsOf(L) -> CaptureInputs],
            se \in [CapsOf(L) -> SeeValues]} : L \in SUBSET AllMoves}

EvasionPositions ==
  UNION {{Position(TRUE, L, ci, Empty, Empty, {}) :
            ci \in [CapsOf(L) -> CaptureInputs]} : L \in SUBSET AllMoves}

ProbcutPositions == MainPositions

QSearchPositions ==
  UNION {{Position(FALSE, L, ci, Empty, sq, ck) :
            ci \in [CapsOf(L) -> CaptureInputs], sq \in [CapsOf(L) -> Squares],
            ck \in SUBSET QuietsOf(L)} : L \in SUBSET AllMoves}

NoRefutations == <<NoMove, NoMove, NoMove>>

\* the observers and the fields no constructor sets
Fresh ==
  /\ moves = <<>>
  /\ curBuf = "unset"
  /\ cur = 0
  /\ endMoves = 0
  /\ endBadCaptures = 0
  /\ ret = -1
  /\ emitted = <<>>
  /\ done = FALSE
  /\ again = FALSE
  /\ failed = <<>>
  /\ genLog = <<>>
  /\ refSlots = -1

SortIdle ==
  /\ sortIn = <<>>
  /\ sortLimit = 0
  /\ sortOut = <<>>
  /\ sortDone = FALSE

\* the codec is not used while the picker or the sort is exercised
SanIdle ==
  /\ sanPos = [us |-> 0]
  /\ sanMove = NoMove
  /\ sanText = <<>>
  /\ sanParsed = -1
  /\ sanOk = <<>>
  /\ lanValidated = -1

\* MovePicker(pos, ttm, d, mh, cph, ch, cm, killers), d > 0
MainCtor ==
  /\ ctor = "main"
  /\ pos \in MainPositions \cup EvasionPositions
  /\ ttMove \in TTMoves
  /\ refutations \in IF pos.checkers THEN {NoRefutations} ELSE RefutationTriples
  /\ depth \in MainDepths
  /\ threshold = 0
  /\ recaptureSquare = 0
  /\ stage = MainStage(pos, ttMove)

\* MovePicker(pos, ttm, d, mh, cph, ch, rs), d <= 0
QSearchCtor ==
  /\ ctor = "qsearch"
  /\ pos \in QSearchPositions \cup EvasionPositions
  /\ ttMove \in TTMoves
  /\ refutations = NoRefutations
  /\ depth \in QsDepths
  /\ threshold = 0
  /\ recaptureSquare \in IF pos.checkers THEN {0} ELSE Squares
  /\ stage = QSearchStage(pos, ttMove)

\* MovePicker(pos, ttm, th, cph), the position not in check
ProbcutCtor ==
  /\ ctor = "probcut"
  /\ pos \in ProbcutPositions
  /\ ttMove \in TTMoves
  /\ refutations = NoRefutations
  /\ depth = 0
  /\ threshold \in Thresholds
  /\ recaptureSquare = 0
  /\ stage = ProbcutStage(pos, ttMove, threshold)

Init ==
  /\ MainCtor \/ QSearchCtor \/ ProbcutCtor
  /\ Fresh
  /\ SortIdle
  /\ SanIdle

\* the fields next_move changes
PickerRecord ==
  [stage |-> stage, moves |-> moves, curBuf |-> curBuf, cur |-> cur,
   endMoves |-> endMoves, endBadCaptures |-> endBadCaptures,
   failed |-> failed, genLog |-> genLog, refSlots |-> refSlots]

\* the stage whose code returned the move: the stage after the call, but the TT
\* stages advance before returning
EmittingStage(before, after) ==
  IF before \in {MAIN_TT, EVASION_TT, QSEARCH_TT, PROBCUT_TT} THEN before ELSE after

\* one call of next_move(skipQuiets)
NextMove(skipQuiets) ==
  \E r \in {next_move(PickerRecord, skipQuiets)} :
  /\ stage' = r.s.stage
  /\ moves' = r.s.moves
  /\ curBuf' = r.s.curBuf
  /\ cur' = r.s.cur
  /\ endMoves' = r.s.endMoves
  /\ endBadCaptures' = r.s.endBadCaptures
  /\ failed' = r.s.failed
  /\ genLog' = r.s.genLog
  /\ refSlots' = r.s.refSlots
  /\ ret' = r.ret
  /\ emitted' = IF r.ret # NoMove
                THEN Append(emitted, [move |-> r.ret, stage |-> EmittingStage(stage, r.s.stage)])
                ELSE emitted
  /\ done' = (done \/ r.ret = NoMove)
  /\ again' = (again \/ done)
  /\ UNCHANGED <<ctor, pos, ttMove, refutations, depth, threshold, recaptureSquare>>
  /\ UNCHANGED sortVars
  /\ UNCHANGED sanVars

Next == \E skipQuiets \in BOOLEAN : NextMove(skipQuiets)

Spec == Init /\ [][Next]_vars

\* a call of next_move would change the state: ENABLED <<Next>>_vars written out
CanStep ==
  \/ ~done
  \/ ~again
  \/ \E skipQuiets \in BOOLEAN : \E r \in {next_move(PickerRecord, skipQuiets)} :
       \/ r.ret # NoMove
       \/ r.ret # ret
       \/ r.s # PickerRecord

\* the caller keeps calling next_move for as long as a call changes anything:
\* WF_vars(Next), with its enabling condition as the state predicate CanStep
FairSpec == Spec /\ ([]<>(~CanStep) \/ []<><<Next>>_vars)

\* the caller passes skipQuiets = false on every call
NextNoSkip == NextMove(FALSE)
SpecNoSkip == Init /\ [][NextNoSkip]_vars

\* the caller passes skipQuiets = true on every call
NextSkip == NextMove(TRUE)
SpecSkip == Init /\ [][NextSkip]_vars

\* ------------------------------------- partial_insertion_sort on its own
SortValues == {-1, 0, 1}
SortLimits == {0, INT_MIN}

\* the arrays handed to the sort: entry i is move i, with any of the values
SortInputs ==
  UNION {{[i \in 1..n |-> ExtMove(i, f[i])] : f \in [1..n -> SortValues]} : n \in 0..MaxSortLen}

\* a picker that is not used while the sort is exercised
PickerIdle ==
  /\ ctor = "probcut"
  /\ pos = Position(FALSE, {}, Empty, Empty, Empty, {})
  /\ ttMove = NoMove
  /\ refutations = NoRefutations
  /\ depth = 0
  /\ threshold = 0
  /\ recaptureSquare = 0
  /\ stage = PROBCUT_INIT
  /\ Fresh

SortInit ==
  /\ PickerIdle
  /\ sortIn \in SortInputs
  /\ sortLimit \in SortLimits
  /\ sortOut = <<>>
  /\ sortDone = FALSE
  /\ SanIdle

\* partial_insertion_sort(begin, end, limit) on the array sortIn
SortCall ==
  /\ ~sortDone
  /\ sortOut' = partial_insertion_sort(sortIn, sortLimit)
  /\ sortDone' = TRUE
  /\ UNCHANGED <<sortIn, sortLimit>>
  /\ UNCHANGED pickerVars
  /\ UNCHANGED sanVars

SortSpec == SortInit /\ [][SortCall]_vars

\* ========================================================= the SAN/LAN codec
\* Strings are sequences of characters. A Move is its 16-bit data: bits 0-5 the
\* destination, bits 6-11 the origin, bits 12-13 the promotion piece - KNIGHT,
\* bits 14-15 the move type.

WHITE == 0
BLACK == 1
NO_PIECE_TYPE == 0
KNIGHT == 2
BISHOP == 3
ROOK == 4
QUEEN == 5
KING == 6
PROMOTION == 1
EN_PASSANT == 2
CASTLING == 3
RANK_8 == 7
SQ_E1 == 4
SQ_NONE == 64

make_square(f, r) == r * 8 + f
file_of(sq) == sq % 8
rank_of(sq) == sq \div 8
relative_rank(c, sq) == IF c = WHITE THEN rank_of(sq) ELSE 7 - rank_of(sq)
relative_square(c, sq) == IF c = WHITE THEN sq ELSE make_square(file_of(sq), 7 - rank_of(sq))

\* Move(from, to) and Move::make<T>(from, to, pt)
MoveOf(from, to) == from * 64 + to
\* Move::null()
NullMove == 65
make(T, from, to, pt) == T * 16384 + (pt - KNIGHT) * 4096 + from * 64 + to
from_sq(m) == (m \div 64) % 64
dest_sq(m) == m % 64
type_of(m) == m \div 16384
promotion_type(m) == ((m \div 4096) % 4) + KNIGHT

FileChars == <<"a", "b", "c", "d", "e", "f", "g", "h">>
RankChars == <<"1", "2", "3", "4", "5", "6", "7", "8">>
IsFileChar(c) == \E i \in 1..8 : FileChars[i] = c
IsRankChar(c) == \E i \in 1..8 : RankChars[i] = c
\* c - 'a' and c - '1'
FileOfChar(c) == (CHOOSE i \in 1..8 : FileChars[i] = c) - 1
RankOfChar(c) == (CHOOSE i \in 1..8 : RankChars[i] = c) - 1

\* UCI::square(sq), also what streaming a Square into the SAN text writes
square(sq) == <<FileChars[file_of(sq) + 1], RankChars[rank_of(sq) + 1]>>

tolower(c) ==
  CASE c = "N" -> "n" [] c = "B" -> "b" [] c = "R" -> "r" [] c = "Q" -> "q"
    [] c = "K" -> "k" [] c = "O" -> "o" [] c = "P" -> "p" [] OTHER -> c

ToLowerAll(s) == [i \in 1..Len(s) |-> tolower(s[i])]

\* std::string_view::find(c): 0-based index of the first occurrence, -1 for npos
Find(view, c) ==
  IF \E i \in 1..Len(view) : view[i] = c
  THEN (CHOOSE i \in 1..Len(view) : view[i] = c /\ \A j \in 1..(i - 1) : view[j] # c) - 1
  ELSE -1

get_square_from(s) == make_square(FileOfChar(s[1]), RankOfChar(s[2]))

get_pt_from_prom(c) ==
  LET idx == Find(<<" ", " ", "n", "b", "r", "q">>, tolower(c))
  IN IF idx # -1 THEN idx ELSE QUEEN

get_pt(c) ==
  LET idx == Find(<<" ", "p", "n", "b", "r", "q", "k">>, tolower(c))
  IN IF idx # -1 THEN idx ELSE PAWN

\* ---- the two regular expressions
\* regex_match(s, "([a-h][1-8])([a-h][1-8])([qrbn]?)")
LanMatch(s) ==
  /\ Len(s) \in {4, 5}
  /\ IsFileChar(s[1]) /\ IsRankChar(s[2])
  /\ IsFileChar(s[3]) /\ IsRankChar(s[4])
  /\ Len(s) = 5 => s[5] \in {"q", "r", "b", "n"}

\* the ways of taking or skipping the four optional groups in front of the
\* target square, in the order a backtracking matcher tries them (taking first)
SanGroupChoices ==
  <<<<TRUE, TRUE, TRUE, TRUE>>, <<TRUE, TRUE, TRUE, FALSE>>,
    <<TRUE, TRUE, FALSE, TRUE>>, <<TRUE, TRUE, FALSE, FALSE>>,
    <<TRUE, FALSE, TRUE, TRUE>>, <<TRUE, FALSE, TRUE, FALSE>>,
    <<TRUE, FALSE, FALSE, TRUE>>, <<TRUE, FALSE, FALSE, FALSE>>,
    <<FALSE, TRUE, TRUE, TRUE>>, <<FALSE, TRUE, TRUE, FALSE>>,
    <<FALSE, TRUE, FALSE, TRUE>>, <<FALSE, TRUE, FALSE, FALSE>>,
    <<FALSE, FALSE, TRUE, TRUE>>, <<FALSE, FALSE, TRUE, FALSE>>,
    <<FALSE, FALSE, FALSE, TRUE>>, <<FALSE, FALSE, FALSE, FALSE>>>>

CharAt(s, i) == IF i >= 1 /\ i <= Len(s) THEN s[i] ELSE ""

\* the sub-matches of ([NBRQK])?([a-h1-8])?([1-8])?([x])?([a-h][1-8])(\=[NBRQ])?.*
\* when the optional groups are taken as g says ("" is an empty sub-match)
SanGroups(s, g) ==
  LET p2 == 1 + (IF g[1] THEN 1 ELSE 0)
      p3 == p2 + (IF g[2] THEN 1 ELSE 0)
      p4 == p3 + (IF g[3] THEN 1 ELSE 0)
      p5 == p4 + (IF g[4] THEN 1 ELSE 0)
      prom == CharAt(s, p5 + 2) = "=" /\ CharAt(s, p5 + 3) \in {"N", "B", "R", "Q"}
  IN [ok |-> /\ g[1] => CharAt(s, 1) \in {"N", "B", "R", "Q", "K"}
             /\ g[2] => (IsFileChar(CharAt(s, p2)) \/ IsRankChar(CharAt(s, p2)))
             /\ g[3] => IsRankChar(CharAt(s, p3))
             /\ g[4] => CharAt(s, p4) = "x"
             /\ IsFileChar(CharAt(s, p5)) /\ IsRankChar(CharAt(s, p5 + 1)),
      m1 |-> IF g[1] THEN CharAt(s, 1) ELSE "",
      m2 |-> IF g[2] THEN CharAt(s, p2) ELSE "",
      m3 |-> IF g[3] THEN CharAt(s, p3) ELSE "",
      m4 |-> IF g[4] THEN CharAt(s, p4) ELSE "",
      m5 |-> <<CharAt(s, p5), CharAt(s, p5 + 1)>>,
      m6 |-> IF prom THEN <<"=", CharAt(s, p5 + 3)>> ELSE <<>>]

\* regex_match(s, match, the SAN expression): the first choice that matches
SanMatch(s) ==
  IF \E i \in 1..Len(SanGroupChoices) : SanGroups(s, SanGroupChoices[i]).ok
  THEN SanGroups(s, SanGroupChoices[
         CHOOSE i \in 1..Len(SanGroupChoices) :
           /\ SanGroups(s, SanGroupChoices[i]).ok
           /\ \A j \in 1..(i - 1) : ~SanGroups(s, SanGroupChoices[j]).ok])
  ELSE [ok |-> FALSE]

\* castle == "o-o" || s == "o-o-o", castle the lower-case copy of s
is_ok(s) ==
  \/ LanMatch(s)
  \/ SanMatch(s).ok
  \/ ToLowerAll(s) = <<"o", "-", "o">>
  \/ s = <<"o", "-", "o", "-", "o">>

\* ---- the Position surface the codec reads
\* A position holds the side to move, the Chess960 flag, the legal moves, the
\* pieces on the squares the codec looks at, which legal moves capture, give
\* check and mate, and the castling rook squares of the side to move.
NO_PIECE == [c |-> -1, t |-> NO_PIECE_TYPE]
make_piece(c, pt) == [c |-> c, t |-> pt]
type_of_piece(pc) == pc.t
piece_on(p, sq) == IF sq \in DOMAIN p.board THEN p.board[sq] ELSE NO_PIECE
moved_piece(p, m) == piece_on(p, from_sq(m))
castling_rook_square(p, side) == IF side = "KING_SIDE" THEN p.rookK ELSE p.rookQ
gives_check(p, m) == m \in p.checks

\* pos.pieces(us, pt) > 1: the bitboard, read as a number, exceeds 1 unless it
\* is empty or holds square a1 alone
PiecesAboveOne(p, pt) ==
  LET bb == {sq \in DOMAIN p.board : p.board[sq] = make_piece(p.us, pt)}
  IN bb # {} /\ bb # {0}

\* popcount of a bool converted to a bitboard
popcount(b) == IF b THEN 1 ELSE 0

\* UCI::move(m, chess960)
UCI_move(m, chess960) ==
  LET from == from_sq(m)
      to == IF type_of(m) = CASTLING /\ ~chess960
            THEN make_square(IF dest_sq(m) > from THEN 6 ELSE 2, rank_of(from))
            ELSE dest_sq(m)
      text == square(from) \o square(to)
  IN IF m = NoMove THEN <<"(", "n", "o", "n", "e", ")">>
     ELSE IF m = NullMove THEN <<"0", "0", "0", "0">>
     ELSE IF type_of(m) = PROMOTION
     THEN Append(text, <<" ", "p", "n", "b", "r", "q", "k">>[promotion_type(m) + 1])
     ELSE text

\* ---- the codec
get_move_from(p, pt, to, promotion, file, rank) ==
  LET list == {m \in p.legal :
                 ~(\/ dest_sq(m) # to
                   \/ type_of_piece(piece_on(p, from_sq(m))) # pt
                   \/ (type_of(m) = PROMOTION
                        /\ (promotion = NO_PIECE_TYPE \/ promotion_type(m) # promotion)))}
      byFile == IF Cardinality(list) > 1 /\ file >= 0 /\ file <= 7
                THEN {m \in list : file_of(from_sq(m)) = file} ELSE list
      byRank == IF Cardinality(list) > 1 /\ rank >= 0 /\ rank <= 7
                THEN {m \in byFile : rank_of(from_sq(m)) = rank} ELSE byFile
  IN IF list = {} THEN [first |-> <<>>, second |-> NoMove]
     ELSE IF Cardinality(byRank) = 1
     THEN LET m == CHOOSE x \in byRank : TRUE
          IN [first |-> UCI_move(m, p.chess960), second |-> m]
     ELSE [first |-> <<>>, second |-> NoMove]

\* the LAN branch of algebraic_to_move
LanToMove(s, p) ==
  LET us == p.us
      sq_from == get_square_from(SubSeq(s, 1, 2))
      sq_to == get_square_from(SubSeq(s, 3, 4))
      pt == type_of_piece(piece_on(p, sq_from))
  IN IF pt = PAWN /\ relative_rank(us, sq_to) = RANK_8
     THEN make(PROMOTION, sq_from, sq_to, IF Len(s) = 5 THEN get_pt_from_prom(s[5]) ELSE QUEEN)
     ELSE IF pt = KING /\ p.chess960 /\ piece_on(p, sq_to) = make_piece(us, ROOK)
     THEN make(CASTLING, sq_from, sq_to, KNIGHT)
     ELSE IF pt = KING /\ ~p.chess960
             /\ (s = <<"e", "1", "g", "1">> \/ s = <<"e", "8", "g", "8">>)
     THEN make(CASTLING, relative_square(us, SQ_E1), castling_rook_square(p, "KING_SIDE"), KNIGHT)
     ELSE IF pt = KING /\ ~p.chess960
             /\ (s = <<"e", "1", "c", "1">> \/ s = <<"e", "8", "c", "8">>)
     THEN make(CASTLING, relative_square(us, SQ_E1), castling_rook_square(p, "QUEEN_SIDE"), KNIGHT)
     ELSE MoveOf(sq_from, sq_to)

\* the SAN branch of algebraic_to_move
SanToMove(s, p) ==
  LET match == SanMatch(s)
      pt == IF match.m1 # "" THEN get_pt(match.m1) ELSE PAWN
      amb_file == IF match.m2 # "" /\ ~IsRankChar(match.m2) THEN FileOfChar(match.m2) ELSE -1
      amb_rank == IF match.m3 # "" THEN RankOfChar(match.m3)
                  ELSE IF match.m2 # "" /\ IsRankChar(match.m2) THEN RankOfChar(match.m2)
                  ELSE -1
      sq_to == get_square_from(match.m5)
      promotion == IF pt = PAWN /\ relative_rank(p.us, sq_to) = RANK_8
                   THEN (IF match.m6 # <<>> THEN get_pt_from_prom(match.m6[2]) ELSE QUEEN)
                   ELSE NO_PIECE_TYPE
  IN get_move_from(p, pt, sq_to, promotion, amb_file, amb_rank).second

CastleShort == {<<"O", "-", "O">>, <<"o", "-", "o">>, <<"0", "-", "0">>}
CastleLong ==
  {<<"O", "-", "O", "-", "O">>, <<"o", "-", "o", "-", "o">>, <<"0", "-", "0", "-", "0">>}

algebraic_to_move(s, p) ==
  IF LanMatch(s) THEN LanToMove(s, p)
  ELSE IF SanMatch(s).ok THEN SanToMove(s, p)
  ELSE IF s \in CastleShort
  THEN make(CASTLING, relative_square(p.us, SQ_E1), castling_rook_square(p, "KING_SIDE"), KNIGHT)
  ELSE IF s \in CastleLong
  THEN make(CASTLING, relative_square(p.us, SQ_E1), castling_rook_square(p, "QUEEN_SIDE"), KNIGHT)
  ELSE NoMove

PieceLetter(pt) == <<" ", " ", "N", "B", "R", "Q", "K">>[pt + 1]

\* the disambiguator to_san writes after the piece letter
Disambiguator(move, p, pt) ==
  LET list == {m \in p.legal :
                 ~(dest_sq(m) # dest_sq(move) \/ type_of_piece(moved_piece(p, m)) # pt)}
      sameFile == {m \in list : file_of(from_sq(move)) = file_of(from_sq(m))}
      sameRank == {m \in list : rank_of(from_sq(move)) = rank_of(from_sq(m))}
  IN IF popcount(PiecesAboveOne(p, pt)) # 0 /\ Cardinality(list) > 1
     THEN IF Cardinality(sameFile) = 1 THEN <<FileChars[file_of(from_sq(move)) + 1]>>
          ELSE IF Cardinality(sameRank) = 1 THEN <<RankChars[rank_of(from_sq(move)) + 1]>>
          ELSE square(from_sq(move))
     ELSE <<>>

\* '+' or '#' when the move gives check
CheckSuffix(move, p) ==
  IF gives_check(p, move) THEN (IF move \in p.mates THEN <<"#">> ELSE <<"+">>) ELSE <<>>

to_san(move, p) ==
  IF move = NoMove THEN <<"(", "n", "o", "n", "e", ")">>
  ELSE IF move = NullMove THEN <<"0", "0", "0", "0">>
  ELSE IF type_of(move) = CASTLING
  THEN (IF from_sq(move) > dest_sq(move)
        THEN <<"O", "-", "O", "-", "O">> ELSE <<"O", "-", "O">>) \o CheckSuffix(move, p)
  ELSE LET pt == type_of_piece(moved_piece(p, move))
       IN (IF pt # PAWN THEN <<PieceLetter(pt)>> \o Disambiguator(move, p, pt) ELSE <<>>)
          \o (IF move \in p.captures
              THEN (IF pt = PAWN THEN <<FileChars[file_of(from_sq(move)) + 1]>> ELSE <<>>)
                   \o <<"x">>
              ELSE <<>>)
          \o square(dest_sq(move))
          \o (IF type_of(move) = EN_PASSANT THEN <<"/", "e", ".", "p", ".">>
              ELSE IF type_of(move) = PROMOTION
              THEN <<"=", PieceLetter(promotion_type(move))>>
              ELSE <<>>)
          \o CheckSuffix(move, p)

validate_move(p, token) ==
  IF p.legal = {} THEN NoMove
  ELSE LET move == algebraic_to_move(token, p)
       IN IF move \in p.legal THEN move ELSE NoMove

\* ---- the positions the codec is exercised on
\* Each position is given by what the codec reads of it. The legal moves listed
\* are complete for every (piece type, destination) pair they touch, which is
\* all get_move_from and to_san look at.
At(f, r) == get_square_from(<<f, r>>)
CheckKinds == {"none", "check", "mate"}
Checking(kind, ms) == IF kind = "none" THEN {} ELSE ms
Mating(kind, ms) == IF kind = "mate" THEN ms ELSE {}
PromotionPieces == {KNIGHT, BISHOP, ROOK, QUEEN}

\* white knights that all reach f3, the white king on a1
KnightFroms == {At("g", "1"), At("g", "5"), At("d", "2"), At("e", "1")}
KnightPositions ==
  {LET nm == {MoveOf(sq, At("f", "3")) : sq \in S}
   IN [us |-> WHITE, chess960 |-> FALSE,
       legal |-> nm \cup {MoveOf(At("a", "1"), At("a", "2"))},
       board |-> [sq \in S \cup {At("a", "1")} |->
                    IF sq \in S THEN make_piece(WHITE, KNIGHT) ELSE make_piece(WHITE, KING)],
       captures |-> IF cap THEN nm ELSE {},
       checks |-> Checking(k, nm), mates |-> Mating(k, nm),
       rookK |-> SQ_NONE, rookQ |-> SQ_NONE] :
   S \in (SUBSET KnightFroms) \ {{}}, cap \in BOOLEAN, k \in CheckKinds}

\* white pawns: a2 free to advance; with ep >= 1 a pawn on e5 (ep = 2: and one on
\* c5) beside a black pawn that has just advanced d7-d5; with promo >= 1 a pawn
\* on g7 in front of the empty g8 (promo = 2: and a black piece on h8)
PawnPositions ==
  {LET eps == {make(EN_PASSANT, At("e", "5"), At("d", "6"), KNIGHT) : x \in {y \in {1} : ep >= 1}}
              \cup {make(EN_PASSANT, At("c", "5"), At("d", "6"), KNIGHT) : x \in {y \in {1} : ep = 2}}
       pushes == {MoveOf(At("a", "2"), At("a", "3")), MoveOf(At("a", "2"), At("a", "4"))}
                 \cup {MoveOf(At("e", "5"), At("e", "6")) : x \in {y \in {1} : ep >= 1}}
                 \cup {MoveOf(At("c", "5"), At("c", "6")) : x \in {y \in {1} : ep = 2}}
       promPush == {make(PROMOTION, At("g", "7"), At("g", "8"), pt) :
                      pt \in {q \in PromotionPieces : promo >= 1}}
       promTake == {make(PROMOTION, At("g", "7"), At("h", "8"), pt) :
                      pt \in {q \in PromotionPieces : promo = 2}}
       pawns == {At("a", "2")} \cup {At("e", "5") : x \in {y \in {1} : ep >= 1}}
                \cup {At("c", "5") : x \in {y \in {1} : ep = 2}}
                \cup {At("g", "7") : x \in {y \in {1} : promo >= 1}}
   IN [us |-> WHITE, chess960 |-> FALSE,
       legal |-> pushes \cup eps \cup promPush \cup promTake
                 \cup {MoveOf(At("h", "1"), At("h", "2"))},
       board |-> [sq \in pawns \cup {At("h", "1")} |->
                    IF sq \in pawns THEN make_piece(WHITE, PAWN) ELSE make_piece(WHITE, KING)],
       captures |-> eps \cup promTake,
       checks |-> Checking(k, eps \cup promPush \cup promTake),
       mates |-> Mating(k, eps \cup promPush \cup promTake),
       rookK |-> SQ_NONE, rookQ |-> SQ_NONE] :
   ep \in 0..2, promo \in 0..2, k \in CheckKinds}

\* the white king on its first rank between the rooks on a1 and h1, with both
\* castling rights; sides: the castling moves that are legal now
CastlingSides == {{"KING_SIDE"}, {"QUEEN_SIDE"}, {"KING_SIDE", "QUEEN_SIDE"}}
KingFiles(c960) == IF c960 THEN {"e", "f"} ELSE {"e"}
CastlingPositions ==
  UNION {
    {LET king == At(kf, "1")
         cm == {make(CASTLING, king, At("h", "1"), KNIGHT) : x \in sides \cap {"KING_SIDE"}}
               \cup {make(CASTLING, king, At("a", "1"), KNIGHT) : x \in sides \cap {"QUEEN_SIDE"}}
     IN [us |-> WHITE, chess960 |-> c960,
         legal |-> cm \cup {MoveOf(king, At(kf, "2")), MoveOf(At("a", "1"), At("a", "3"))},
         board |-> [sq \in {king, At("a", "1"), At("h", "1")} |->
                      IF sq = king THEN make_piece(WHITE, KING) ELSE make_piece(WHITE, ROOK)],
         captures |-> {},
         checks |-> Checking(k, cm), mates |-> Mating(k, cm),
         rookK |-> At("h", "1"), rookQ |-> At("a", "1")] :
     kf \in KingFiles(c960), sides \in CastlingSides, k \in CheckKinds} :
    c960 \in BOOLEAN}

\* the same position with the colours exchanged and the board turned over
FlipSq(sq) == IF sq = SQ_NONE THEN SQ_NONE ELSE make_square(file_of(sq), 7 - rank_of(sq))
FlipMove(m) ==
  m - MoveOf(from_sq(m), dest_sq(m)) + MoveOf(FlipSq(from_sq(m)), FlipSq(dest_sq(m)))
FlipMoves(ms) == {FlipMove(m) : m \in ms}
Flip(p) ==
  [us |-> BLACK, chess960 |-> p.chess960,
   legal |-> FlipMoves(p.legal),
   board |-> [sq \in {FlipSq(x) : x \in DOMAIN p.board} |->
                make_piece(BLACK, type_of_piece(p.board[FlipSq(sq)]))],
   captures |-> FlipMoves(p.captures),
   checks |-> FlipMoves(p.checks), mates |-> FlipMoves(p.mates),
   rookK |-> FlipSq(p.rookK), rookQ |-> FlipSq(p.rookQ)]

WhitePositions == KnightPositions \cup PawnPositions \cup CastlingPositions
SanPositions == WhitePositions \cup {Flip(p) : p \in WhitePositions}

\* ---- the codec applied to a legal move of a position
SanInit ==
  /\ PickerIdle
  /\ SortIdle
  /\ sanPos \in SanPositions
  /\ sanMove \in sanPos.legal
  /\ sanText = <<>>
  /\ sanParsed = -1
  /\ sanOk = <<>>
  /\ lanValidated = -1

\* sanText = to_san(m, pos)
ToSanCall ==
  /\ sanMove # NoMove /\ sanText = <<>>
  /\ sanText' = to_san(sanMove, sanPos)
  /\ UNCHANGED <<sanPos, sanMove, sanParsed, sanOk, lanValidated>>
  /\ UNCHANGED <<pickerVars, sortVars>>

\* algebraic_to_move(sanText, pos)
AlgebraicToMoveCall ==
  /\ sanText # <<>> /\ sanParsed = -1
  /\ sanParsed' = algebraic_to_move(sanText, sanPos)
  /\ UNCHANGED <<sanPos, sanMove, sanText, sanOk, lanValidated>>
  /\ UNCHANGED <<pickerVars, sortVars>>

\* is_ok(sanText)
IsOkCall ==
  /\ sanText # <<>> /\ sanOk = <<>>
  /\ sanOk' = <<is_ok(sanText)>>
  /\ UNCHANGED <<sanPos, sanMove, sanText, sanParsed, lanValidated>>
  /\ UNCHANGED <<pickerVars, sortVars>>

\* validate_move(pos, UCI::move(m, pos.is_chess960()))
ValidateMoveCall ==
  /\ sanMove # NoMove /\ lanValidated = -1
  /\ lanValidated' = validate_move(sanPos, UCI_move(sanMove, sanPos.chess960))
  /\ UNCHANGED <<sanPos, sanMove, sanText, sanParsed, sanOk>>
  /\ UNCHANGED <<pickerVars, sortVars>>

SanNext == ToSanCall \/ AlgebraicToMoveCall \/ IsOkCall \/ ValidateMoveCall
SanSpec == SanInit /\ [][SanNext]_vars

\* ================================================================ claims
EmittedMoves == {emitted[i].move : i \in 1..Len(emitted)}
EmittedIn(st) == SelectSeq(emitted, LAMBDA e : e.stage = st)
MovesOf(seq) == [i \in 1..Len(seq) |-> seq[i].move]
TTStages == {MAIN_TT, EVASION_TT, QSEARCH_TT, PROBCUT_TT}
MainNotInCheck == ctor = "main" /\ ~pos.checkers

\* the entry rule of the constructors, as the specification words it
EntryRuleHolds ==
  /\ ttMove # NoMove
  /\ ttMove \in pos.legal
  /\ ctor = "probcut" => (ttMove \in CaptureIds /\ pos.see[ttMove] >= threshold)

\* C1: the moves returned up to the first none contain no move twice.
C1_NoMoveTwice ==
  \A i, j \in 1..Len(emitted) : i < j => emitted[i].move # emitted[j].move

\* C2: main search, not in check, skipQuiets = false on every call: once none has
\* been returned, every generated capture and every generated quiet move has been
\* returned.
C2_NoGeneratedMoveLost ==
  (MainNotInCheck /\ done) =>
    (Range(generate("CAPTURES")) \cup Range(generate("QUIETS"))) \subseteq EmittedMoves

C2_Witness ==
  /\ MainNotInCheck /\ done
  /\ \A st \in {GOOD_CAPTURE, REFUTATION, QUIET, BAD_CAPTURE} : EmittedIn(st) # <<>>

\* C3: when ttMove passes the entry rule, the first call returns it from the TT
\* stage, and no generator has run by then.
C3_TTMoveFirst ==
  (EntryRuleHolds /\ ret # -1) =>
    /\ emitted # <<>>
    /\ emitted[1].move = ttMove
    /\ emitted[1].stage \in TTStages
    /\ (Len(emitted) = 1 /\ ~done) => genLog = <<>>

C3_Witness ==
  /\ EntryRuleHolds /\ ctor = "probcut"
  /\ Len(emitted) = 1 /\ ret = ttMove /\ genLog = <<>>

\* C4: when ttMove is not none and fails the entry rule, the picker starts at the
\* init stage after the TT stage and never returns ttMove.
C4_RejectedTTNeverReturned ==
  (ttMove # NoMove /\ ~EntryRuleHolds) =>
    /\ ret # ttMove
    /\ ttMove \notin EmittedMoves
    /\ stage \notin TTStages
    /\ ret = -1 => stage = (CASE ctor = "probcut" -> PROBCUT_INIT
                              [] pos.checkers -> EVASION_INIT
                              [] ctor = "main" -> CAPTURE_INIT
                              [] ctor = "qsearch" -> QCAPTURE_INIT)

\* a probcut picker whose ttMove is a pseudo-legal capture failing the SEE
\* threshold has run to the end, other captures having been returned
C4_Witness ==
  /\ ctor = "probcut" /\ ttMove \in pos.legal \cap CaptureIds /\ ~EntryRuleHolds
  /\ done /\ emitted # <<>>

IsPrefix(a, b) == Len(a) <= Len(b) /\ \A i \in 1..Len(a) : a[i] = b[i]

\* the SEE test of GOOD_CAPTURE, as the specification words it
PassesGoodCaptureSee(m) == pos.see[m] >= CDiv(-69 * ScoreCapture(m), 1024)

\* C5: main search: the moves returned by GOOD_CAPTURE come in non-increasing
\* order of capture score, and each satisfies see_ge(m, -69 * value / 1024).
C5_GoodCapturesOrdered ==
  MainNotInCheck =>
    LET g == MovesOf(EmittedIn(GOOD_CAPTURE)) IN
    \A i \in 1..Len(g) :
      /\ PassesGoodCaptureSee(g[i])
      /\ \A j \in (i + 1)..Len(g) : ScoreCapture(g[i]) >= ScoreCapture(g[j])

\* two good captures returned against the order the generator produced them in
C5_Witness ==
  /\ MainNotInCheck
  /\ LET g == MovesOf(EmittedIn(GOOD_CAPTURE)) IN
     /\ Len(g) >= 2
     /\ g[1] > g[2]
     /\ ScoreCapture(g[1]) > ScoreCapture(g[2])

\* the generated captures that GOOD_CAPTURE tests and that fail the test
FailingCaptures == {m \in pos.legal \cap CaptureIds : m # ttMove /\ ~PassesGoodCaptureSee(m)}

\* C6: main search: the captures that fail the SEE test of GOOD_CAPTURE are
\* returned by BAD_CAPTURE, each once, in the order they were scanned in, whatever
\* skipQuiets values are passed.
C6_BadCapturesDeferred ==
  MainNotInCheck =>
    LET b == MovesOf(EmittedIn(BAD_CAPTURE)) IN
    /\ IsPrefix(b, failed)
    /\ \A i, j \in 1..Len(b) : i < j => b[i] # b[j]
    /\ done => (b = failed /\ Range(b) = FailingCaptures)

\* two captures of different score failed, quiet moves were generated over the
\* buffer, and both came back in scan order
C6_Witness ==
  /\ MainNotInCheck /\ done
  /\ Len(failed) >= 2
  /\ ScoreCapture(failed[1]) > ScoreCapture(failed[2])
  /\ EmittedIn(QUIET) # <<>>
  /\ MovesOf(EmittedIn(BAD_CAPTURE)) = failed

\* C7: the refutation range prepared when GOOD_CAPTURE is exhausted has two
\* slots when the countermove equals a killer (REFUTATION then returns at most two
\* moves), and three slots otherwise.
C7_CountermoveDedup ==
  refSlots # -1 =>
    LET dup == refutations[3] = refutations[1] \/ refutations[3] = refutations[2] IN
    /\ refSlots = (IF dup THEN 2 ELSE 3)
    /\ Len(EmittedIn(REFUTATION)) <= refSlots
    /\ stage = REFUTATION => (curBuf = "refutations" /\ endMoves = refSlots /\ cur <= endMoves)

C7_Witness ==
  /\ refSlots = 2
  /\ refutations[3] # NoMove
  /\ Len(EmittedIn(REFUTATION)) = 2

\* C8: every move REFUTATION returns is one of the three refutations, is not
\* none, is not a capture, is pseudo-legal and is not ttMove.
C8_RefutationsFiltered ==
  \A i \in 1..Len(emitted) :
    emitted[i].stage = REFUTATION =>
      LET m == emitted[i].move IN
      /\ m \in Range(refutations)
      /\ m # NoMove
      /\ m \notin CaptureIds
      /\ m \in pos.legal
      /\ m # ttMove

\* a refutation was returned while another slot held a pseudo-legal capture and
\* a third held ttMove
C8_Witness ==
  /\ EmittedIn(REFUTATION) # <<>>
  /\ \E k \in 1..3 : refutations[k] \in pos.legal \cap CaptureIds
  /\ \E k \in 1..3 : refutations[k] = ttMove /\ ttMove \in pos.legal

\* C9 as stated: main search, skipQuiets = true on every call: no returned move
\* is a non-capture unless it is one of the three refutations.
C9_OnlyRefutationsQuiet ==
  ctor = "main" =>
    \A i \in 1..Len(emitted) :
      emitted[i].move \notin CaptureIds => emitted[i].move \in Range(refutations)

\* C9 amended: main search on a position not in check, skipQuiets = true on every
\* call: a returned move that is not a capture is the TT move returned by the TT
\* stage or a refutation returned by REFUTATION.
C9_QuietsSkipped ==
  MainNotInCheck =>
    \A i \in 1..Len(emitted) :
      emitted[i].move \notin CaptureIds =>
        \/ emitted[i].stage = MAIN_TT /\ emitted[i].move = ttMove
        \/ emitted[i].stage = REFUTATION /\ emitted[i].move \in Range(refutations)

\* the picker ran to the end past a pseudo-legal quiet move that is neither the
\* TT move nor a refutation
C9_Witness ==
  /\ MainNotInCheck /\ done
  /\ \E q \in pos.legal \cap QuietIds : q # ttMove /\ q \notin Range(refutations)
  /\ EmittedIn(REFUTATION) # <<>>

\* C10: after partial_insertion_sort the entries with value >= limit are in
\* non-increasing order, they form a prefix of the array, and the array is a
\* permutation of the input.
C10_PartialSortContract ==
  sortDone =>
    /\ \A i, j \in 1..Len(sortOut) :
         (i < j /\ sortOut[i].value >= sortLimit /\ sortOut[j].value >= sortLimit)
           => sortOut[i].value >= sortOut[j].value
    /\ \A i, j \in 1..Len(sortOut) :
         (i < j /\ sortOut[j].value >= sortLimit) => sortOut[i].value >= sortLimit
    /\ Len(sortOut) = Len(sortIn)
    /\ Range(sortOut) = Range(sortIn)

\* the first entry is below the limit and two later entries above it are out of order
C10_Witness ==
  /\ sortDone
  /\ Len(sortIn) >= 3
  /\ sortIn[1].value < sortLimit
  /\ sortIn[2].value >= sortLimit
  /\ sortIn[3].value > sortIn[2].value

\* C11: once a call of next_move has returned none, every later call returns none
\* too, whatever skipQuiets is passed, and leaves the stage as it is.
C11_NoneIsFinal == [][done => (ret' = NoMove /\ stage' = stage)]_vars

C11_Witness == again /\ ret = NoMove /\ emitted # <<>>

\* C12 (as stated): after the first init stage has run, cur and endMoves are
\* positions inside the moves buffer, moves <= cur <= endMoves <= moves + capacity,
\* in every stage, REFUTATION included.
C12_CursorInsideMoves ==
  genLog # <<>> =>
    (curBuf = "moves" /\ 0 <= cur /\ cur <= endMoves /\ endMoves <= MAX_MOVES)

\* C12 (amended): after the first init stage has run, cur <= endMoves and both are
\* positions inside one array: the three-slot refutations array while the stage
\* is REFUTATION, the moves buffer in every other stage.
C12_CursorInsideItsArray ==
  genLog # <<>> =>
    /\ 0 <= cur /\ cur <= endMoves
    /\ stage = REFUTATION => (curBuf = "refutations" /\ endMoves <= Len(refutations))
    /\ stage # REFUTATION =>
         (curBuf = "moves" /\ endMoves <= Len(moves) /\ Len(moves) <= MAX_MOVES)

C12_Witness ==
  /\ stage = REFUTATION /\ curBuf = "refutations" /\ ret # NoMove
  /\ cur > 0 /\ cur < endMoves

MainCaptureStages == {GOOD_CAPTURE, REFUTATION, QUIET, BAD_CAPTURE}

\* C13 (as stated): main search, in every stage after CAPTURE_INIT, REFUTATION
\* included, endBadCaptures <= endMoves as positions in the moves buffer.
C13_BadCapturesBelowEndMoves ==
  (MainNotInCheck /\ stage \in MainCaptureStages) =>
    (curBuf = "moves" /\ endBadCaptures <= endMoves)

\* C13 (amended): main search, in every stage after CAPTURE_INIT, endBadCaptures
\* is a position inside the written part of the moves buffer, and in GOOD_CAPTURE,
\* QUIET and BAD_CAPTURE, where endMoves points into the moves buffer too,
\* endBadCaptures <= endMoves.
C13_BadCapturesBelowEndInMoves ==
  (MainNotInCheck /\ stage \in MainCaptureStages) =>
    /\ 0 <= endBadCaptures /\ endBadCaptures <= Len(moves)
    /\ stage # REFUTATION => (curBuf = "moves" /\ endBadCaptures <= endMoves)

C13_Witness ==
  /\ MainNotInCheck /\ stage = QUIET /\ curBuf = "moves"
  /\ endBadCaptures > 0 /\ endBadCaptures < endMoves

\* the stage set the constructor selects
StageSet ==
  CASE ctor \in {"main", "qsearch"} /\ pos.checkers -> EVASION_TT..EVASION
    [] ctor = "main" /\ ~pos.checkers -> MAIN_TT..BAD_CAPTURE
    [] ctor = "qsearch" /\ ~pos.checkers -> QSEARCH_TT..QCHECK
    [] ctor = "probcut" -> PROBCUT_TT..PROBCUT

\* C17: the stage never decreases and never leaves the stage set selected at
\* construction (main search not in check: MAIN_TT..BAD_CAPTURE; quiescence not in
\* check: QSEARCH_TT..QCHECK; probcut: PROBCUT_TT..PROBCUT; main search or
\* quiescence in check: EVASION_TT..EVASION).
C17_StageMonotoneInItsSet ==
  /\ [](stage \in StageSet)
  /\ [][stage' >= stage /\ StageSet' = StageSet]_vars

C17_Witness ==
  \/ ctor = "qsearch" /\ pos.checkers /\ stage = EVASION /\ emitted # <<>>
  \/ ctor = "qsearch" /\ ~pos.checkers /\ stage = QCHECK /\ emitted # <<>>

QSearchNotInCheck == ctor = "qsearch" /\ ~pos.checkers

\* C18: quiescence, not in check: every move returned by QCAPTURE satisfies
\* depth > DEPTH_QS_RECAPTURES or to_sq(m) = recaptureSquare; so with
\* depth <= DEPTH_QS_RECAPTURES every returned move other than the TT move lands
\* on recaptureSquare.
C18_RecapturesOnly ==
  QSearchNotInCheck =>
    /\ \A i \in 1..Len(emitted) :
         emitted[i].stage = QCAPTURE =>
           (depth > DEPTH_QS_RECAPTURES \/ to_sq(emitted[i].move) = recaptureSquare)
    /\ depth <= DEPTH_QS_RECAPTURES =>
         \A i \in 1..Len(emitted) :
           emitted[i].stage \notin TTStages => to_sq(emitted[i].move) = recaptureSquare

\* a recapture returned after a capture on another square was passed over
C18_Witness ==
  /\ QSearchNotInCheck /\ depth <= DEPTH_QS_RECAPTURES /\ done
  /\ EmittedIn(QCAPTURE) # <<>>
  /\ \E m \in Range(generate("CAPTURES")) : m # ttMove /\ to_sq(m) # recaptureSquare

\* the captures QCAPTURE can still return from the state
QCapturesLeft ==
  CASE stage = QCAPTURE_INIT ->
         {m \in Range(generate("CAPTURES")) : NotTT(m) /\ QCaptureFilter(m)}
    [] stage = QCAPTURE ->
         {moves[j + 1].move : j \in {k \in cur..(endMoves - 1) :
                                       NotTT(moves[k + 1].move) /\ QCaptureFilter(moves[k + 1].move)}}
    [] OTHER -> {}

\* C19: quiescence, not in check: QCHECK_INIT / QCHECK is reached (quiet checks
\* are generated and returned) only if depth = DEPTH_QS_CHECKS; with another depth
\* the stage never passes QCAPTURE and next_move returns none as soon as the
\* captures are exhausted.
C19_QuietChecksOnlyAtDepthZero ==
  /\ [](QSearchNotInCheck =>
         /\ (stage > QCAPTURE \/ EmittedIn(QCHECK) # <<>>
               \/ \E i \in 1..Len(genLog) : genLog[i] = "QUIET_CHECKS")
              => depth = DEPTH_QS_CHECKS
         /\ depth # DEPTH_QS_CHECKS => stage <= QCAPTURE)
  /\ [][(QSearchNotInCheck /\ depth # DEPTH_QS_CHECKS
           /\ stage \in {QCAPTURE_INIT, QCAPTURE} /\ QCapturesLeft = {})
          => (ret' = NoMove /\ stage' = QCAPTURE)]_vars

\* quiet checks exist, yet the picker ended in QCAPTURE after its captures
C19_Witness ==
  /\ QSearchNotInCheck /\ depth # DEPTH_QS_CHECKS /\ done /\ stage = QCAPTURE
  /\ EmittedIn(QCAPTURE) # <<>>
  /\ pos.checks # {}

EvasionsReturned == MovesOf(EmittedIn(EVASION))

\* C20: in EVASION each call returns the entry of highest score among those not
\* yet consumed and different from ttMove: the returned evasions are non-increasing
\* in score, and every generated evasion other than ttMove is returned exactly once.
C20_EvasionsBestFirst ==
  pos.checkers =>
    LET e == EvasionsReturned
        gen == Range(generate("EVASIONS")) \ {ttMove}
    IN /\ \A i \in 1..Len(e) :
            /\ e[i] \in gen
            /\ \A m \in gen \ {e[j] : j \in 1..(i - 1)} : ScoreEvasion(m) <= ScoreEvasion(e[i])
       /\ \A i, j \in 1..Len(e) : i < j => e[i] # e[j]
       /\ done => {e[i] : i \in 1..Len(e)} = gen

\* all evasions returned, not in the order the generator wrote them, the TT move
\* among the generated ones
C20_Witness ==
  /\ pos.checkers /\ done /\ Len(EvasionsReturned) >= 3
  /\ EvasionsReturned[1] > EvasionsReturned[2]
  /\ ttMove \in Range(generate("EVASIONS"))

\* C14: for every legal move m of every position (en-passant captures, castling
\* and promotions included), validate_move applied to the LAN string UCI::move(m)
\* returns m itself.
C14_LanRoundTrip == lanValidated # -1 => lanValidated = sanMove

\* C15: for every legal move m of every position (castling, checking and mating
\* moves, en-passant captures and promotions included), algebraic_to_move applied
\* to to_san(m) returns m.
C15_SanRoundTrip == sanParsed # -1 => sanParsed = sanMove

\* C16: is_ok is true of the string to_san produces for every legal move, the
\* castling outputs "O-O" and "O-O-O" included.
C16_SanOutputIsOk == sanOk # <<>> => sanOk = <<TRUE>>

\* C21: probcut: every move returned after the TT stage is a generated capture m
\* with see_ge(m, threshold) and m # ttMove, these moves come in non-increasing
\* order of capture score, and a generated capture failing see_ge(m, threshold)
\* is never returned.
C21_ProbcutCapturesFiltered ==
  ctor = "probcut" =>
    LET p == MovesOf(EmittedIn(PROBCUT)) IN
    /\ \A i \in 1..Len(emitted) : emitted[i].stage \in {PROBCUT_TT, PROBCUT}
    /\ \A i \in 1..Len(p) :
         /\ p[i] \in Range(generate("CAPTURES"))
         /\ see_ge(p[i], threshold)
         /\ p[i] # ttMove
         /\ \A j \in (i + 1)..Len(p) : ScoreCapture(p[i]) >= ScoreCapture(p[j])
    /\ \A m \in Range(generate("CAPTURES")) : ~see_ge(m, threshold) => m \notin EmittedMoves

\* the capture of higher score failed the threshold and was passed over, the one
\* of lower score was returned
C21_Witness ==
  /\ ctor = "probcut" /\ done
  /\ Len(EmittedIn(PROBCUT)) = 1
  /\ \E m \in Range(generate("CAPTURES")) :
       /\ ~see_ge(m, threshold)
       /\ ScoreCapture(m) > ScoreCapture(EmittedIn(PROBCUT)[1].move)

\* the bound on the moves a picker returns: the TT move, the generated captures,
\* the three refutation slots and the generated quiets
ReturnBound == 1 + Len(generate("CAPTURES")) + 3 + Len(generate("QUIETS"))

\* C22: for every flavor, generator output and sequence of skipQuiets values,
\* repeated calls of next_move eventually return none, and the number of moves
\* returned never exceeds 1 + captures + 3 + quiets.
C22_EventuallyNoneWithinBound ==
  /\ <>done
  /\ [](Len(emitted) <= ReturnBound)

\* a main-search picker that returned a TT move, a capture, a refutation and a
\* quiet before it returned none
C22_Witness ==
  /\ ctor = "main" /\ done
  /\ EmittedIn(MAIN_TT) # <<>>
  /\ EmittedIn(GOOD_CAPTURE) # <<>>
  /\ EmittedIn(REFUTATION) # <<>>
  /\ EmittedIn(QUIET) # <<>>

\* the generated captures GOOD_CAPTURE has not scanned yet: the slots [cur, endMoves)
UnscannedCaptures ==
  IF stage = GOOD_CAPTURE THEN {moves[i].move : i \in (cur + 1)..endMoves} ELSE {}

\* C23: main search: during GOOD_CAPTURE endBadCaptures <= cur, so a failed
\* capture written to *endBadCaptures never overwrites a generated capture not
\* yet scanned (every generated capture other than the TT move is still waiting
\* in [cur, endMoves), or was returned, or was set aside, and only one of the
\* three), and the slots [moves, endBadCaptures) hold exactly the captures that
\* failed the SEE test so far, in scan order.
C23_BadCaptureSlots ==
  (MainNotInCheck /\ stage \in MainCaptureStages) =>
    /\ stage = GOOD_CAPTURE => (curBuf = "moves" /\ endBadCaptures <= cur)
    /\ endBadCaptures <= Len(moves)
    /\ [i \in 1..endBadCaptures |-> moves[i].move] = failed
    /\ \A m \in Range(generate("CAPTURES")) \ {ttMove} :
         LET waiting == m \in UnscannedCaptures
             returned == m \in Range(MovesOf(EmittedIn(GOOD_CAPTURE)))
             setAside == m \in Range(failed)
         IN /\ waiting \/ returned \/ setAside
            /\ ~(waiting /\ returned) /\ ~(waiting /\ setAside) /\ ~(returned /\ setAside)
            /\ returned => PassesGoodCaptureSee(m)
            /\ setAside => ~PassesGoodCaptureSee(m)
    /\ \A i, j \in 1..Len(failed) : i < j => failed[i] # failed[j]

\* between two calls in GOOD_CAPTURE: one capture was set aside below cur and
\* another one returned
C23_Witness ==
  /\ MainNotInCheck /\ stage = GOOD_CAPTURE
  /\ failed # <<>>
  /\ endBadCaptures < cur
  /\ ret # NoMove /\ ~done

\* C24: main search: the stage never leaves BAD_CAPTURE, and a call that ends in
\* BAD_CAPTURE, whatever skipQuiets it is given, returns none or one of the
\* captures set aside, never a generated quiet move: once skipQuiets = true has
\* taken the picker past the quiet stages, the quiet moves are not returned.
C24_SkipQuietsIrreversible ==
  [][MainNotInCheck =>
       /\ stage = BAD_CAPTURE => stage' = BAD_CAPTURE
       /\ stage' = BAD_CAPTURE =>
            \/ ret' = NoMove
            \/ /\ ret' \in Range(failed')
               /\ ret' \notin Range(generate("QUIETS"))]_vars

\* the quiet stages were passed with skipQuiets = true before any quiet move was
\* generated, a legal quiet move that is no refutation was never returned, and
\* the calls after the one that reached BAD_CAPTURE returned the captures set
\* aside and then none
C24_Witness ==
  /\ MainNotInCheck /\ stage = BAD_CAPTURE /\ done
  /\ "QUIETS" \notin Range(genLog)
  /\ \E q \in Range(generate("QUIETS")) :
       q # ttMove /\ QuietFilter(q) /\ q \notin EmittedMoves
  /\ Len(EmittedIn(BAD_CAPTURE)) >= 2

===============================================================================
